---- MODULE Spec2Model ----
(***************************************************************************)
(* RealDataDynamicBaseline (src/src/baseline/dynamic_baseline_engine.py):  *)
(* the dynamic baseline engine and its real-time diagnosis, as a state     *)
(* machine.  Metric names are transliterated (TLA+ strings are ASCII):     *)
(*   "spend" = xiaohao (cost), "gmv" = zhengti GMV, "items" = chengjiao    *)
(*   jianshu, "roi_actual" = shiji ROI; aliases "refund_orders" (tuihuo    *)
(*   dingdan shu -> items), "ad_roi" (guanggao ROI -> roi_actual),         *)
(*   "new_fans" (xinzeng fensituan renshu -> "deals_1"), "time_slot"       *)
(*   (shijianduan -> hour).  "date", "hour", "anchor", "weekday" are the   *)
(*   columns riqi, xiaoshi, zhubo, xingqiji.                               *)
(* Numbers are exact rationals [n, d]; pandas/Python floats are modelled   *)
(* by the rational they approximate.                                       *)
(***************************************************************************)
EXTENDS Integers, Sequences, FiniteSets, TLC

VARIABLES is_initialized, data_pool, baseline_table, standard_progress_table,
          state_file, last, rebuild

\* rebuild is the position of an initialize_system call that another thread
\* is running on the engine; the calls of Spec run to completion
vars == <<is_initialized, data_pool, baseline_table, standard_progress_table,
          state_file, last, rebuild>>

engine == <<is_initialized, data_pool, baseline_table, standard_progress_table>>

(***************************************************************************)
(* Rational arithmetic                                                     *)
(***************************************************************************)
Abs(x) == IF x < 0 THEN -x ELSE x

RECURSIVE GCD(_, _)
GCD(a, b) == IF b = 0 THEN a ELSE GCD(b, a % b)

Rat(n, d) ==
  LET g == GCD(Abs(n), Abs(d))
      s == IF d < 0 THEN -1 ELSE 1
  IN  [n |-> (s * n) \div g, d |-> (s * d) \div g]

RInt(v) == [n |-> v, d |-> 1]

RAdd(a, b) == Rat(a.n * b.d + b.n * a.d, a.d * b.d)

RDiv(a, b) == Rat(a.n * b.d, a.d * b.n)

RLeq(a, b) == a.n * b.d <= b.n * a.d

RLess(a, b) == a.n * b.d < b.n * a.d

RPos(a) == a.n > 0

RECURSIVE RSumSeq(_)
RSumSeq(s) == IF s = <<>> THEN RInt(0) ELSE RAdd(Head(s), RSumSeq(Tail(s)))

\* sum(xs) / len(xs), for a non-empty list of rationals
RMean(s) == RDiv(RSumSeq(s), RInt(Len(s)))

RECURSIVE SumSeq(_)
SumSeq(s) == IF s = <<>> THEN 0 ELSE Head(s) + SumSeq(Tail(s))

\* [f(s[1]), ..., f(s[n])]
MapSeq(s, f(_)) == [i \in 1..Len(s) |-> f(s[i])]

(***************************************************************************)
(* Text: a string is a sequence of one-character strings                   *)
(***************************************************************************)
Digits == {"0", "1", "2", "3", "4", "5", "6", "7", "8", "9"}

DigitVal(c) ==
  CASE c = "0" -> 0 [] c = "1" -> 1 [] c = "2" -> 2 [] c = "3" -> 3
    [] c = "4" -> 4 [] c = "5" -> 5 [] c = "6" -> 6 [] c = "7" -> 7
    [] c = "8" -> 8 [] c = "9" -> 9

DigitChar(v) ==
  CASE v = 0 -> "0" [] v = 1 -> "1" [] v = 2 -> "2" [] v = 3 -> "3"
    [] v = 4 -> "4" [] v = 5 -> "5" [] v = 6 -> "6" [] v = 7 -> "7"
    [] v = 8 -> "8" [] v = 9 -> "9"

IsDigit(c) == c \in Digits

AllDigits(s) == s # <<>> /\ \A i \in 1..Len(s) : IsDigit(s[i])

RECURSIVE TakeDigits(_)
TakeDigits(s) ==
  IF s = <<>> \/ ~IsDigit(Head(s)) THEN <<>>
  ELSE <<Head(s)>> \o TakeDigits(Tail(s))

RECURSIVE DropNonDigits(_)
DropNonDigits(s) ==
  IF s = <<>> \/ IsDigit(Head(s)) THEN s ELSE DropNonDigits(Tail(s))

\* str.extract(r'(\d+)'): the first maximal run of digits, <<>> when none
ExtractDigits(s) == TakeDigits(DropNonDigits(s))

RECURSIVE ToNumber(_)
ToNumber(ds) ==
  IF ds = <<>> THEN 0
  ELSE 10 * ToNumber(SubSeq(ds, 1, Len(ds) - 1)) + DigitVal(ds[Len(ds)])

RECURSIVE IntToChars(_)
IntToChars(v) ==
  IF v < 10 THEN <<DigitChar(v)>>
  ELSE IntToChars(v \div 10) \o <<DigitChar(v % 10)>>

\* str(v) of an integer
IntText(v) == IF v >= 0 THEN IntToChars(v) ELSE <<"-">> \o IntToChars(-v)

\* the pieces of s between occurrences of the separator
RECURSIVE SplitOn(_, _)
SplitOn(s, sep) ==
  IF \A i \in 1..Len(s) : s[i] # sep THEN <<s>>
  ELSE LET k == CHOOSE i \in 1..Len(s) :
                  s[i] = sep /\ \A j \in 1..(i - 1) : s[j] # sep
       IN  <<SubSeq(s, 1, k - 1)>> \o SplitOn(SubSeq(s, k + 1, Len(s)), sep)

(***************************************************************************)
(* Cells of a table: a number, a text, or missing (NaN / None)             *)
(***************************************************************************)
Num(v) == [t |-> "num", v |-> v, s |-> <<>>]

Text(s) == [t |-> "text", v |-> 0, s |-> s]

NaN == [t |-> "nan", v |-> 0, s |-> <<>>]

IsNull(c) == c.t = "nan"

\* df.replace('-', np.nan)
ReplaceDash(c) == IF c.t = "text" /\ c.s = <<"-">> THEN NaN ELSE c

\* pd.to_numeric(..., errors='coerce') on one cell
ToNumeric(c) ==
  CASE c.t = "num" -> c
    [] c.t = "text" /\ AllDigits(c.s) -> Num(ToNumber(c.s))
    [] OTHER -> NaN

\* astype(str) on one cell
AsStr(c) ==
  CASE c.t = "num" -> IntText(c.v)
    [] c.t = "text" -> c.s
    [] OTHER -> <<"n", "a", "n">>

(***************************************************************************)
(* Dates: pd.to_datetime of "YYYY-MM-DD" and Timestamp.dayofweek           *)
(***************************************************************************)
IsLeap(y) == (y % 4 = 0 /\ y % 100 # 0) \/ y % 400 = 0

DaysInMonth(y, m) ==
  CASE m \in {1, 3, 5, 7, 8, 10, 12} -> 31
    [] m \in {4, 6, 9, 11} -> 30
    [] OTHER -> IF IsLeap(y) THEN 29 ELSE 28

\* the year counted from March, and the day within it
ShiftedYear(y, m) == IF m <= 2 THEN y - 1 ELSE y

DayOfShiftedYear(m, d) == (153 * (IF m > 2 THEN m - 3 ELSE m + 9) + 2) \div 5 + d - 1

DaysFromEra(yy, doy) ==
  (yy \div 400) * 146097
    + ((yy % 400) * 365 + (yy % 400) \div 4 - (yy % 400) \div 100 + doy) - 719468

\* days since 1970-01-01 of the civil date y-m-d
DaysFromCivil(y, m, d) == DaysFromEra(ShiftedYear(y, m), DayOfShiftedYear(m, d))

CivilDate(y, m, d) ==
  IF m \in 1..12 /\ d >= 1 /\ d <= DaysInMonth(y, m)
  THEN Num(DaysFromCivil(y, m, d))
  ELSE NaN

ParseDate(p) ==
  IF Len(p) = 3 /\ \A i \in 1..3 : AllDigits(p[i])
  THEN CivilDate(ToNumber(p[1]), ToNumber(p[2]), ToNumber(p[3]))
  ELSE NaN

\* pd.to_datetime(text, errors='coerce'): the day number, or NaN (NaT)
ToDatetime(c) == IF c.t # "text" THEN NaN ELSE ParseDate(SplitOn(c.s, "-"))

\* Timestamp.dayofweek: Monday = 0 ... Sunday = 6 (1970-01-01 was a Thursday)
DayOfWeek(days) == (days + 3) % 7

(***************************************************************************)
(* Configuration set by the constructor (the metrics the model follows)    *)
(***************************************************************************)
\* self.column_mapping, used as column_mapping.get(name, name)
column_mapping(name) ==
  CASE name = "time_slot" -> "hour"
    [] name = "refund_orders" -> "items"
    [] name = "ad_roi" -> "roi_actual"
    [] name = "new_fans" -> "deals_1"
    [] OTHER -> name

absolute_indicators == {"spend", "gmv", "items"}

ratio_indicators == {"roi_actual"}

all_indicators == absolute_indicators \cup ratio_indicators

required_fields == {"date", "hour", "anchor"}

key_financial_metrics == {"spend", "gmv"}

\* range(7) and range(24) of the table builders and of the fallback scans
Weekdays == 0..6

Hours == 0..23

(***************************************************************************)
(* A historical file: [readable, columns, rows]; a row maps each column    *)
(* to a cell                                                               *)
(***************************************************************************)
Columns(df) == df.columns

\* df.rename(columns=self.column_mapping)
RenameRow(row) ==
  [c \in {column_mapping(k) : k \in DOMAIN row} |->
     row[CHOOSE k \in DOMAIN row : column_mapping(k) = c]]

\* str.extract(r'(\d+)') then pd.to_numeric on the extracted text
HourOf(ds) == IF ds = <<>> THEN NaN ELSE Num(ToNumber(ds))

\* steps 3 and 4 on one row: hour and date parsed, indicators made numeric
CoerceRow(row) ==
  [c \in DOMAIN row |->
     CASE c = "hour" -> HourOf(ExtractDigits(AsStr(row[c])))
       [] c = "date" -> ToDatetime(row[c])
       [] c \in all_indicators -> ToNumeric(row[c])
       [] OTHER -> row[c]]

\* df["weekday"] = df["date"].dt.dayofweek
WithWeekday(row) ==
  [c \in DOMAIN row \cup {"weekday"} |->
     IF c = "weekday" THEN Num(DayOfWeek(row["date"].v)) ELSE row[c]]

HasValidTime(row) == ~IsNull(row["date"]) /\ ~IsNull(row["hour"])

\* a filter that drops the rows whose key financial metrics are null but
\* keeps those where one is zero
HasKeyFinancials_nonnull(row) ==
  \A k \in key_financial_metrics : ~IsNull(row[k])

HasKeyFinancials(row) ==
  \A k \in key_financial_metrics : ~IsNull(row[k]) /\ row[k].v # 0

\* df.replace('-', np.nan) on one row
NoDashRow(row) == [c \in DOMAIN row |-> ReplaceDash(row[c])]

\* steps 1 to 4 on the rows of a file that has the columns they need
CleanRows(rows) ==
  SelectSeq(MapSeq(SelectSeq(MapSeq(MapSeq(MapSeq(rows, RenameRow), NoDashRow),
                                    CoerceRow),
                             HasValidTime),
                   WithWeekday),
            HasKeyFinancials)

Preprocessed(cols, rows) ==
  IF ~(required_fields \subseteq cols)
  THEN [rows |-> <<>>, logs |-> 0]
  ELSE IF ~(key_financial_metrics \subseteq cols)
  THEN [rows |-> <<>>, logs |-> 1]      \* KeyError in dropna, caught
  ELSE [rows |-> CleanRows(rows), logs |-> 0]

\* _preprocess_data: the cleaned rows and the number of error-log entries
preprocess_data(df) ==
  Preprocessed({column_mapping(c) : c \in Columns(df)}, df.rows)

(***************************************************************************)
(* Baseline table: bucket key "weekday_hour" -> indicator -> mean          *)
(***************************************************************************)
\* f"{day}_{hour}" of two texts
MakeKey(day, hour) == day \o <<"_">> \o hour

\* f"{day}_{hour}" of two integers
BucketKey(day, hour) == MakeKey(IntText(day), IntText(hour))

PoolColumns(pool) == UNION {DOMAIN pool[i] : i \in 1..Len(pool)}

HasValue(row, ind) == ind \in DOMAIN row /\ row[ind].t = "num"

BucketRows(pool, day, hour) ==
  SelectSeq(pool, LAMBDA r : r["weekday"].v = day /\ r["hour"].v = hour)

\* a null value counted as zero instead of being left out of the mean
ValidValues_nulls_as_zero(rows, ind) ==
  MapSeq(SelectSeq(rows, LAMBDA r : ind \in DOMAIN r),
         LAMBDA r : IF r[ind].t = "num" THEN RInt(r[ind].v) ELSE RInt(0))

ValidValues(rows, ind) ==
  MapSeq(SelectSeq(rows, LAMBDA r : HasValue(r, ind)), LAMBDA r : RInt(r[ind].v))

BaselineValues(rows) ==
  [ind \in {i \in all_indicators : ValidValues(rows, i) # <<>>} |->
     RMean(ValidValues(rows, ind))]

BucketBaseline(pool, b) == BaselineValues(BucketRows(pool, b[1], b[2]))

\* the (day, hour) pairs of the two loops that get an entry
FilledBuckets(pool) ==
  {b \in Weekdays \X Hours :
     /\ BucketRows(pool, b[1], b[2]) # <<>>
     /\ DOMAIN BucketBaseline(pool, b) # {}}

BaselineOver(pool, filled) ==
  [k \in {BucketKey(b[1], b[2]) : b \in filled} |->
     BucketBaseline(pool, CHOOSE c \in filled : BucketKey(c[1], c[2]) = k)]

\* _calculate_baseline: the table and the number of error-log entries
calculate_baseline(pool) ==
  IF pool = <<>>
  THEN [table |-> <<>>, logs |-> 1]         \* KeyError on an empty frame, caught
  ELSE [table |-> BaselineOver(pool, FilledBuckets(pool)), logs |-> 0]

(***************************************************************************)
(* Standard progress table: bucket key -> absolute indicator -> fraction   *)
(***************************************************************************)
NumericOrZero(row, ind) == IF HasValue(row, ind) THEN row[ind].v ELSE 0

\* values.sum() over the rows of one date
DailyTotal(pool, date, ind) ==
  SumSeq(MapSeq(SelectSeq(pool, LAMBDA r : r["date"].v = date),
                LAMBDA r : NumericOrZero(r, ind)))

\* a running sum that leaves out the rows of the given hour itself
Cumulative_before(pool, date, hour, ind) ==
  SumSeq(MapSeq(SelectSeq(pool, LAMBDA r : r["date"].v = date /\ r["hour"].v < hour),
                LAMBDA r : NumericOrZero(r, ind)))

\* the sum over the rows of that date with hour <= the given hour
Cumulative(pool, date, hour, ind) ==
  SumSeq(MapSeq(SelectSeq(pool, LAMBDA r : r["date"].v = date /\ r["hour"].v <= hour),
                LAMBDA r : NumericOrZero(r, ind)))

\* f"{int(row['weekday'])}_{int(row['hour'])}"
RowKey(row) == BucketKey(row["weekday"].v, row["hour"].v)

\* daily_progress[key][indicator]: one fraction per row of the bucket whose
\* day has a positive total
ProgressList(pool, key, ind) ==
  MapSeq(SelectSeq(pool, LAMBDA r : RowKey(r) = key
                                     /\ DailyTotal(pool, r["date"].v, ind) > 0),
         LAMBDA r : Rat(Cumulative(pool, r["date"].v, r["hour"].v, ind),
                        DailyTotal(pool, r["date"].v, ind)))

\* a progress table computed for every classified indicator, the ratio
\* ones included
progress_table_all_indicators(pool) ==
  IF pool = <<>>
  THEN [table |-> <<>>, logs |-> 1]
  ELSE [table |->
          [k \in {RowKey(pool[i]) : i \in 1..Len(pool)} |->
             [ind \in {a \in all_indicators \cap PoolColumns(pool) :
                         ProgressList(pool, k, a) # <<>>} |->
                RMean(ProgressList(pool, k, ind))]],
        logs |-> 0]

\* _calculate_standard_progress_table
calculate_standard_progress_table(pool) ==
  IF pool = <<>>
  THEN [table |-> <<>>, logs |-> 1]         \* KeyError in groupby, caught
  ELSE [table |->
          [k \in {RowKey(pool[i]) : i \in 1..Len(pool)} |->
             [ind \in {a \in absolute_indicators \cap PoolColumns(pool) :
                         ProgressList(pool, k, a) # <<>>} |->
                RMean(ProgressList(pool, k, ind))]],
        logs |-> 0]

(***************************************************************************)
(* initialize_system as a function of the file: what it returns, what it   *)
(* logs and, when it succeeds, the state it installs                       *)
(***************************************************************************)
NotInstalled(logs) ==
  [ok |-> FALSE, logs |-> logs, pool |-> <<>>, baseline |-> <<>>, progress |-> <<>>]

Installed(rows, logs, b, p) ==
  [ok |-> TRUE, logs |-> logs + b.logs + p.logs,
   pool |-> rows, baseline |-> b.table, progress |-> p.table]

AfterPreprocess(pre) ==
  IF pre.rows = <<>>
  THEN NotInstalled(pre.logs)
  ELSE Installed(pre.rows, pre.logs, calculate_baseline(pre.rows),
                 calculate_standard_progress_table(pre.rows))

initialize_outcome(df) ==
  IF ~df.readable THEN NotInstalled(1) ELSE AfterPreprocess(preprocess_data(df))

(***************************************************************************)
(* Fallback resolution and grading                                         *)
(***************************************************************************)
\* round(x * scale) / scale, ties to even
RoundHalfEven(x, scale) ==
  LET num == x.n * scale
      q   == num \div x.d
      rem == num - q * x.d
  IN  IF 2 * rem < x.d THEN Rat(q, scale)
      ELSE IF 2 * rem > x.d THEN Rat(q + 1, scale)
      ELSE IF q % 2 = 0 THEN Rat(q, scale) ELSE Rat(q + 1, scale)

Round2(x) == RoundHalfEven(x, 100)

HasEntry(table, key, ind) == key \in DOMAIN table /\ ind \in DOMAIN table[key]

Missing == [found |-> FALSE, value |-> RInt(0)]

Found(v) == [found |-> TRUE, value |-> v]

MinOf(S) == CHOOSE d \in S : \A e \in S : d <= e

\* the keys whose bucket holds a positive baseline of the indicator
PositiveKeys(table, ind) ==
  {k \in DOMAIN table : ind \in DOMAIN table[k] /\ RPos(table[k][ind])}

RECURSIVE RSumKeys(_, _, _)
RSumKeys(table, ind, keys) ==
  IF keys = {} THEN RInt(0)
  ELSE LET k == CHOOSE x \in keys : TRUE
       IN  RAdd(table[k][ind], RSumKeys(table, ind, keys \ {k}))

\* sum(all_values) / len(all_values) over the positive entries
MeanOver(table, ind, keys) ==
  RDiv(RSumKeys(table, ind, keys), RInt(Cardinality(keys)))

GlobalMean(table, ind) == MeanOver(table, ind, PositiveKeys(table, ind))

Resolved(v, prog, tier, arg) ==
  [found |-> TRUE, value |-> v, progress |-> prog, tier |-> tier, arg |-> arg]

Unresolved ==
  [found |-> FALSE, value |-> RInt(0), progress |-> Missing, tier |-> "none", arg |-> 0]

ProgressAt(progress, key, ind) ==
  IF HasEntry(progress, key, ind) THEN Found(progress[key][ind]) ELSE Missing

\* a resolver that scans the weekdays of the target hour before looking at
\* the target bucket itself: the variant the tier-priority property excludes
dynamic_resolve_scan_first(table, progress, ind, day, hour) ==
  LET sameHour == {d \in Weekdays : HasEntry(table, MakeKey(IntText(d), hour), ind)}
      k        == MakeKey(IntText(MinOf(sameHour)), hour)
  IN  IF sameHour # {}
      THEN Resolved(table[k][ind], ProgressAt(progress, k, ind), "same_hour",
                    MinOf(sameHour) + 1)
      ELSE Unresolved

\* the weekdays whose bucket at the target hour records the indicator
RecordedDays(table, ind, hour) ==
  {d \in Weekdays : HasEntry(table, MakeKey(IntText(d), hour), ind)}

\* the hours whose bucket on the target day records the indicator
RecordedHours(table, ind, day) ==
  {h \in Hours : HasEntry(table, MakeKey(day, IntText(h)), ind)}

\* baseline and progress read from the bucket a tier settled on
EntryAt(table, progress, ind, k, tier, arg) ==
  Resolved(table[k][ind], ProgressAt(progress, k, ind), tier, arg)

GlobalEntry(table, ind, keys, prog) ==
  Resolved(MeanOver(table, ind, keys), prog, "global", Cardinality(keys))

\* _dynamic_evaluation, steps 1 to 4; day and hour are the texts str(day), str(hour)
dynamic_resolve(table, progress, ind, day, hour) ==
  IF HasEntry(table, MakeKey(day, hour), ind)
  THEN EntryAt(table, progress, ind, MakeKey(day, hour), "exact", 0)
  ELSE IF RecordedDays(table, ind, hour) # {}
  THEN EntryAt(table, progress, ind,
               MakeKey(IntText(MinOf(RecordedDays(table, ind, hour))), hour),
               "same_hour", MinOf(RecordedDays(table, ind, hour)) + 1)
  ELSE IF RecordedHours(table, ind, day) # {}
  THEN EntryAt(table, progress, ind,
               MakeKey(day, IntText(MinOf(RecordedHours(table, ind, day)))),
               "same_day", MinOf(RecordedHours(table, ind, day)))
  ELSE IF PositiveKeys(table, ind) # {}
  THEN GlobalEntry(table, ind, PositiveKeys(table, ind), Found(Rat(1, 2)))
  ELSE Unresolved

\* additive bands whose lower ends are exclusive
dynamic_level_exclusive(c) ==
  IF RLess(Rat(15, 10), c) THEN "excellent"
  ELSE IF RLess(Rat(12, 10), c) THEN "good"
  ELSE IF RLess(Rat(8, 10), c) THEN "normal"
  ELSE "needs_improvement"

\* thresholds of _dynamic_evaluation
dynamic_level(c) ==
  IF RLeq(Rat(15, 10), c) THEN "excellent"
  ELSE IF RLeq(Rat(12, 10), c) THEN "good"
  ELSE IF RLeq(Rat(8, 10), c) THEN "normal"
  ELSE "needs_improvement"

\* the additive bands applied to a ratio coefficient
traditional_level_additive(c) ==
  IF RLeq(Rat(15, 10), c) THEN "excellent"
  ELSE IF RLeq(Rat(12, 10), c) THEN "good"
  ELSE IF RLeq(Rat(8, 10), c) THEN "normal"
  ELSE "needs_improvement"

\* thresholds of _traditional_evaluation
traditional_level(c) ==
  IF RLeq(Rat(12, 10), c) THEN "excellent"
  ELSE IF RLeq(Rat(11, 10), c) THEN "good"
  ELSE IF RLeq(Rat(9, 10), c) THEN "normal"
  ELSE "needs_improvement"

None == [kind |-> "none"]

\* the guard `baseline_value is not None and baseline_value > 0`
Usable(r) == r.found /\ RPos(r.value)

\* an additive evaluation that omits the metric when no baseline is usable
dynamic_evaluation_omitting(table, progress, ind, value, day, hour) ==
  LET r == dynamic_resolve(table, progress, ind, day, hour)
  IN  IF Usable(r)
      THEN [kind |-> "dynamic",
            coefficient |-> Round2(RDiv(RInt(value), r.value)),
            grade |-> dynamic_level(RDiv(RInt(value), r.value)),
            tier |-> r.tier, arg |-> r.arg,
            details |-> [progress |-> RInt(50),
                         baseline |-> Found(RoundHalfEven(r.value, 1)),
                         value |-> value]]
      ELSE None

\* progress_value if progress_value else 0.5
ProgressOrHalf(p) == IF p.found /\ p.value.n # 0 THEN p.value ELSE Rat(1, 2)

\* the graded result of _dynamic_evaluation for coefficient c
DynamicGraded(r, c, value) ==
  [kind |-> "dynamic", coefficient |-> Round2(c), grade |-> dynamic_level(c),
   tier |-> r.tier, arg |-> r.arg,
   details |-> [progress |-> RoundHalfEven(RDiv(ProgressOrHalf(r.progress),
                                                Rat(1, 100)), 10),
                baseline |-> Found(RoundHalfEven(r.value, 1)),
                value |-> value]]

\* what _dynamic_evaluation returns once the baseline has been looked up
DynamicResult(r, value) ==
  IF Usable(r)
  THEN DynamicGraded(r, RDiv(RInt(value), r.value), value)
  ELSE IF value > 0
  THEN [kind |-> "basic", coefficient |-> RInt(1), grade |-> "insufficient_data",
        tier |-> "none", arg |-> 0,
        details |-> [progress |-> RInt(50), baseline |-> Missing, value |-> value]]
  ELSE None

\* _dynamic_evaluation: the result dict, or None
dynamic_evaluation(table, progress, ind, value, day, hour) ==
  DynamicResult(dynamic_resolve(table, progress, ind, day, hour), value)

\* int(text)
IsIntText(s) ==
  AllDigits(s) \/ (Len(s) > 1 /\ Head(s) = "-" /\ AllDigits(Tail(s)))

TextToInt(s) == IF Head(s) = "-" THEN -ToNumber(Tail(s)) ELSE ToNumber(s)

PartsParse(parts) ==
  Len(parts) = 2 /\ IsIntText(parts[1]) /\ IsIntText(parts[2])

\* day, hour = key.split('_'); int(day), int(hour) succeeds
KeyParses(key) == PartsParse(SplitOn(key, "_"))

\* a ratio resolver without the default baseline of step 4
traditional_resolve_no_default(table, ind, key) ==
  LET parts == SplitOn(key, "_")
      day   == TextToInt(parts[1])
      hour  == TextToInt(parts[2])
      sameHour == {d \in Weekdays : HasEntry(table, BucketKey(d, hour), ind)
                                      /\ RPos(table[BucketKey(d, hour)][ind])}
      sameDay  == {h \in Hours : HasEntry(table, BucketKey(day, h), ind)
                                   /\ RPos(table[BucketKey(day, h)][ind])}
  IN  IF HasEntry(table, key, ind) /\ RPos(table[key][ind])
      THEN Resolved(table[key][ind], Missing, "exact", 0)
      ELSE IF sameHour # {}
      THEN Resolved(table[BucketKey(MinOf(sameHour), hour)][ind], Missing,
                    "same_hour", MinOf(sameHour) + 1)
      ELSE IF sameDay # {}
      THEN Resolved(table[BucketKey(day, MinOf(sameDay))][ind], Missing,
                    "same_day", MinOf(sameDay))
      ELSE IF PositiveKeys(table, ind) # {}
      THEN Resolved(GlobalMean(table, ind), Missing, "global",
                    Cardinality(PositiveKeys(table, ind)))
      ELSE Unresolved

\* the weekdays whose bucket at the hour holds a positive baseline
PositiveDays(table, ind, hour) ==
  {d \in Weekdays :
     /\ HasEntry(table, BucketKey(d, hour), ind)
     /\ RPos(table[BucketKey(d, hour)][ind])}

\* the hours whose bucket on the day holds a positive baseline
PositiveHours(table, ind, day) ==
  {h \in Hours :
     /\ HasEntry(table, BucketKey(day, h), ind)
     /\ RPos(table[BucketKey(day, h)][ind])}

\* step 1: the recorded baseline of the bucket, whatever its sign
ExactTier(table, ind, key) ==
  IF HasEntry(table, key, ind)
  THEN Resolved(table[key][ind], Missing, "exact", 0)
  ELSE Unresolved

\* a step 2 that keeps the last weekday of the scan instead of breaking at
\* the first
SameHourTier_last(table, ind, hour, days, t1) ==
  IF ~Usable(t1) /\ days # {}
  THEN Resolved(table[BucketKey(CHOOSE d \in days : \A e \in days : e <= d, hour)][ind],
                Missing, "same_hour",
                (CHOOSE d \in days : \A e \in days : e <= d) + 1)
  ELSE t1

\* step 2, entered when the value so far is None or not positive
SameHourTier(table, ind, hour, days, t1) ==
  IF ~Usable(t1) /\ days # {}
  THEN Resolved(table[BucketKey(MinOf(days), hour)][ind], Missing,
                "same_hour", MinOf(days) + 1)
  ELSE t1

\* step 3
SameDayTier(table, ind, day, hours, t2) ==
  IF ~Usable(t2) /\ hours # {}
  THEN Resolved(table[BucketKey(day, MinOf(hours))][ind], Missing,
                "same_day", MinOf(hours))
  ELSE t2

\* step 4: the global mean, else 1.0 for a ratio indicator
GlobalTier(table, ind, keys, t3) ==
  IF Usable(t3) THEN t3
  ELSE IF keys # {}
  THEN GlobalEntry(table, ind, keys, Missing)
  ELSE IF ind \in ratio_indicators
  THEN Resolved(RInt(1), Missing, "default", 0)
  ELSE t3

TraditionalTiers(table, ind, key, day, hour) ==
  GlobalTier(table, ind, PositiveKeys(table, ind),
    SameDayTier(table, ind, day, PositiveHours(table, ind, day),
      SameHourTier(table, ind, hour, PositiveDays(table, ind, hour),
        ExactTier(table, ind, key))))

\* _traditional_evaluation, steps 1 to 4, for a key that parses
traditional_resolve(table, ind, key) ==
  TraditionalTiers(table, ind, key, TextToInt(SplitOn(key, "_")[1]),
                   TextToInt(SplitOn(key, "_")[2]))

\* the graded result of _traditional_evaluation for coefficient c
TraditionalGraded(r, c) ==
  [kind |-> "traditional", coefficient |-> Round2(c), grade |-> traditional_level(c),
   tier |-> r.tier, arg |-> r.arg,
   details |-> [baseline |-> Found(Round2(r.value))]]

\* what _traditional_evaluation returns once the baseline has been looked up
TraditionalResult(r, value) ==
  IF Usable(r)
  THEN TraditionalGraded(r, RDiv(RInt(value), r.value))
  ELSE IF value > 0
  THEN [kind |-> "basic", coefficient |-> RInt(1),
        grade |-> "insufficient_data", tier |-> "none", arg |-> 0,
        details |-> [baseline |-> Missing]]
  ELSE None

\* _traditional_evaluation: the result dict or None, and the error-log entries
traditional_evaluation(table, ind, value, key) ==
  IF ~KeyParses(key)
  THEN [result |-> None, logs |-> 1]        \* ValueError, caught and logged
  ELSE [result |-> TraditionalResult(traditional_resolve(table, ind, key), value),
        logs |-> 0]

(***************************************************************************)
(* real_time_diagnosis                                                     *)
(***************************************************************************)
\* a key the query does not hold
Absent == [t |-> "absent", v |-> 0, s |-> <<>>]

\* f"{x}" of a query field
Fmt(c) ==
  CASE c.t = "num" -> IntText(c.v)
    [] c.t = "text" -> c.s
    [] OTHER -> <<"N", "o", "n", "e">>

\* re.match(r'(\d{2}):\d{2}-\d{2}:\d{2}', text)
HourRangeMatch(s) ==
  /\ Len(s) >= 11
  /\ \A i \in {1, 2, 4, 5, 7, 8, 10, 11} : IsDigit(s[i])
  /\ s[3] = ":" /\ s[6] = "-" /\ s[9] = ":"

\* float(value) succeeds (the texts enumerated are integer literals or not numbers)
IsFloatText(c) == c.t = "num" \/ (c.t = "text" /\ IsIntText(c.s))

FloatOf(c) == IF c.t = "num" THEN c.v ELSE TextToInt(c.s)

\* a loop body that sends every numeric metric to the additive evaluator,
\* classified or not
MetricOutcome_unclassified_graded(table, progress, day, hour, item) ==
  IF ~IsFloatText(item.value)
  THEN [cls |-> "skipped", reason |-> "bad_format", result |-> None, logs |-> 0]
  ELSE LET r == dynamic_evaluation(table, progress, column_mapping(item.name),
                                   FloatOf(item.value), Fmt(day), Fmt(hour))
       IN  IF r # None
           THEN [cls |-> "dynamic", reason |-> "", result |-> r, logs |-> 0]
           ELSE [cls |-> "skipped", reason |-> "dynamic_failed",
                 result |-> None, logs |-> 0]

Skip(reason, logs) ==
  [cls |-> "skipped", reason |-> reason, result |-> None, logs |-> logs]

\* the branch for an additive indicator, r being what _dynamic_evaluation returned
DynamicOutcome(r) ==
  IF r # None
  THEN [cls |-> "dynamic", reason |-> "", result |-> r, logs |-> 0]
  ELSE Skip("dynamic_failed", 0)

\* the branch for a ratio indicator
TraditionalOutcome(e) ==
  IF e.result # None
  THEN [cls |-> "traditional", reason |-> "", result |-> e.result, logs |-> e.logs]
  ELSE Skip("traditional_failed", e.logs)

\* the classification of a metric whose value converted to a number
ClassifiedOutcome(table, progress, day, hour, mapped, value) ==
  IF mapped \in absolute_indicators
  THEN DynamicOutcome(dynamic_evaluation(table, progress, mapped, value, day, hour))
  ELSE IF mapped \in ratio_indicators
  THEN TraditionalOutcome(traditional_evaluation(table, mapped, value,
                                                 MakeKey(day, hour)))
  ELSE Skip("unclassified", 0)

\* one pass of the loop over query.items() for a metric
MetricOutcome(table, progress, day, hour, item) ==
  IF item.value.t = "nan" \/ (item.value.t = "text" /\ item.value.s = <<>>)
  THEN Skip("empty", 0)
  ELSE IF ~IsFloatText(item.value)
  THEN Skip("bad_format", 0)
  ELSE ClassifiedOutcome(table, progress, Fmt(day), Fmt(hour),
                         column_mapping(item.name), FloatOf(item.value))

\* the positions of the metrics whose outcome is in the given classes
Positions(outs, classes) ==
  SelectSeq([i \in 1..Len(outs) |-> i], LAMBDA i : outs[i].cls \in classes)

\* the names of the metrics whose outcome is in the given classes, in query order
NamesOf(metrics, outs, classes) ==
  MapSeq(Positions(outs, classes), LAMBDA i : metrics[i].name)

\* a skipped list that records the metrics whose evaluation failed or that
\* are unclassified, but not those left out for an empty or malformed value
SkippedOf_failures_only(metrics, outs) ==
  MapSeq(SelectSeq([i \in 1..Len(outs) |-> i],
                   LAMBDA i : outs[i].cls = "skipped"
                                /\ outs[i].reason \notin {"empty", "bad_format"}),
         LAMBDA i : [name |-> metrics[i].name, reason |-> outs[i].reason])

\* skipped_indicators: name and reason, in query order
SkippedOf(metrics, outs) ==
  MapSeq(Positions(outs, {"skipped"}),
         LAMBDA i : [name |-> metrics[i].name, reason |-> outs[i].reason])

\* results: the evaluator's dict under each evaluated metric's name
ResultsOf(metrics, outs) ==
  [nm \in {metrics[i].name : i \in {j \in 1..Len(metrics) : outs[j].cls # "skipped"}} |->
     outs[CHOOSE i \in 1..Len(metrics) : metrics[i].name = nm].result]

DefaultZero(c) == IF c.t = "absent" THEN Num(0) ELSE c

\* lines 386-396: the weekday derived from a date that parses
DerivedDay(weekday, date, parsed) ==
  IF date.t = "text" /\ ~IsNull(parsed) THEN Num(DayOfWeek(parsed.v)) ELSE weekday

\* lines 397-401: the hour taken from an "HH:MM-HH:MM" text, unless the date raised
DerivedHour(hour, date, parsed) ==
  IF ~(date.t = "text" /\ IsNull(parsed)) /\ hour.t = "text" /\ HourRangeMatch(hour.s)
  THEN Num(ToNumber(SubSeq(hour.s, 1, 2)))
  ELSE hour

\* the values the query is read with: weekday and hour after lines 386-407
QueryDay(query) ==
  DefaultZero(DerivedDay(query.weekday, query.date, ToDatetime(query.date)))

QueryHour(query) ==
  DefaultZero(DerivedHour(query.hour, query.date, ToDatetime(query.date)))

\* the entry logged when the preprocessing of the query raises
PreprocessLogs(date, parsed) == IF date.t = "text" /\ IsNull(parsed) THEN 1 ELSE 0

\* a loop in which only the first metric of a query sees the baseline table
Outcomes_first_only(table, progress, day, hour, metrics) ==
  [i \in 1..Len(metrics) |->
     MetricOutcome(IF i = 1 THEN table ELSE <<>>, progress, day, hour, metrics[i])]

\* the loop of lines 441-479 over the metrics of the query
Outcomes(table, progress, day, hour, metrics) ==
  [i \in 1..Len(metrics) |-> MetricOutcome(table, progress, day, hour, metrics[i])]

\* the lists of lines 435-439 after the loop, and total_evaluated of line 482
LoopLocals(results, dynamic, traditional, skipped, inputs) ==
  [results |-> results,
   dynamic_indicators |-> dynamic,
   traditional_indicators |-> traditional,
   skipped_indicators |-> skipped,
   input_indicators |-> inputs,
   total_evaluated |-> Len(dynamic) + Len(traditional)]

LocalsOf(metrics, outs) ==
  LoopLocals(ResultsOf(metrics, outs), NamesOf(metrics, outs, {"dynamic"}),
             NamesOf(metrics, outs, {"traditional"}), SkippedOf(metrics, outs),
             MapSeq(metrics, LAMBDA m : m.name))

\* evaluation_rate
Rate(evaluated, total) ==
  IF total = 0 THEN RInt(0) ELSE RoundHalfEven(Rat(evaluated * 100, total), 10)

\* lines 481-513: the report built from the lists of the loop
Report(day, hour, total, locals, logs) ==
  IF day.t # "num"
  THEN \* f"...{day+1}..." raises TypeError, caught by the outer handler
       [ret |-> [kind |-> "error"], ran |-> TRUE, locals |-> locals, logs |-> logs + 1]
  ELSE [ret |-> [kind |-> "diagnosis",
                 period |-> [day |-> day.v + 1, hour |-> Fmt(hour)],
                 stats |-> [total |-> total,
                            evaluated |-> locals.total_evaluated,
                            skipped |-> Len(locals.skipped_indicators),
                            rate |-> Rate(locals.total_evaluated, total)],
                 classification |-> [dynamic |-> locals.dynamic_indicators,
                                     traditional |-> locals.traditional_indicators,
                                     skipped |-> locals.skipped_indicators],
                 results |-> locals.results],
        ran |-> TRUE, locals |-> locals, logs |-> logs]

Assembled(day, hour, prelog, metrics, outs) ==
  Report(day, hour, Len(metrics), LocalsOf(metrics, outs),
         prelog + SumSeq([i \in 1..Len(outs) |-> outs[i].logs]))

DiagnosisOf(table, progress, day, hour, prelog, metrics) ==
  Assembled(day, hour, prelog, metrics, Outcomes(table, progress, day, hour, metrics))

\* real_time_diagnosis: the value returned, the lists the loop built (when
\* it ran) and the number of error-log entries
real_time_diagnosis(init, table, progress, query) ==
  IF ~init
  THEN [ret |-> [kind |-> "not_initialized"], ran |-> FALSE, logs |-> 0]
  ELSE DiagnosisOf(table, progress, QueryDay(query), QueryHour(query),
                      PreprocessLogs(query.date, ToDatetime(query.date)),
                      query.metrics)

(***************************************************************************)
(* Inputs: the historical files initialize_system is called on             *)
(***************************************************************************)
\* rows per file
MaxRows == 2

Pad2(v) == IF v < 10 THEN <<"0">> \o IntToChars(v) ELSE IntToChars(v)

DateText(y, m, d) ==
  IntToChars(y) \o <<"-">> \o Pad2(m) \o <<"-">> \o Pad2(d)

\* "9:00-10:00"
HourRange(h) ==
  IntToChars(h) \o <<":", "0", "0", "-">> \o IntToChars(h + 1) \o <<":", "0", "0">>

\* "09:00-10:00"
HourRange2(h) ==
  Pad2(h) \o <<":", "0", "0", "-">> \o Pad2(h + 1) \o <<":", "0", "0">>

FileColumns == {"date", "hour", "anchor", "spend", "gmv", "items", "roi_actual"}

MkRow(date, hour, anchor, spend, gmv, items, roi) ==
  [c \in FileColumns |->
     CASE c = "date" -> date
       [] c = "hour" -> hour
       [] c = "anchor" -> anchor
       [] c = "spend" -> spend
       [] c = "gmv" -> gmv
       [] c = "items" -> items
       [] c = "roi_actual" -> roi]

Anchor == Text(<<"a">>)

Dash == Text(<<"-">>)

\* 2024-01-01 and 2024-01-08 are Mondays, 2024-01-02 a Tuesday; the hour
\* texts are "9:00-10:00", "09:00-10:00", "10d" (d for the character dian),
\* plain numbers, and "abc"
RowList ==
  << MkRow(Text(DateText(2024, 1, 1)), Text(HourRange(9)), Anchor,
           Num(100), Num(200), Num(10), Num(10)),
     MkRow(Text(DateText(2024, 1, 8)), Text(HourRange2(9)), NaN,
           Num(200), Num(400), Num(20), Num(20)),
     MkRow(Text(DateText(2024, 1, 1)), Text(<<"1", "0", "d">>), Anchor,
           Num(100), Num(200), Num(0), Num(0)),
     MkRow(Text(DateText(2024, 1, 2)), Num(9), Anchor,
           Num(100), Num(100), Num(20), Num(20)),
     MkRow(Text(DateText(2024, 1, 2)), Text(HourRange(10)), Anchor,
           Num(300), Num(300), Num(10), Num(20)),
     MkRow(Text(DateText(2024, 1, 1)), Num(11), Anchor,
           Num(-50), Num(100), Num(30), Num(10)),
     MkRow(Text(DateText(2024, 1, 1)), Num(24), Anchor,
           Num(100), Num(200), Num(10), Num(10)),
     MkRow(Text(DateText(2024, 1, 2)), Num(11), Anchor,
           Num(100), Num(200), Dash, NaN),
     MkRow(Text(DateText(2024, 13, 1)), Num(9), Anchor,
           Num(100), Num(200), Num(10), Num(10)),
     MkRow(Text(DateText(2024, 1, 1)), Text(<<"a", "b", "c">>), Anchor,
           Num(100), Num(200), Num(10), Num(10)),
     MkRow(Text(DateText(2024, 1, 1)), Num(9), Anchor,
           Num(0), Num(200), Num(10), Num(10)),
     MkRow(Text(DateText(2024, 1, 1)), Num(9), Anchor,
           Num(100), Dash, Num(10), Num(10)) >>

\* the sample sheet: RowList entries in the order the files take them from
Sheet == <<1, 2, 4, 5, 3, 1, 6, 7, 8, 10, 11, 12, 9, 1, 3, 11>>

\* a file holds at most MaxRows consecutive rows of the sheet
RowChoices ==
  UNION {{SubSeq(Sheet, i, i + n - 1) : i \in 1..(Len(Sheet) - n + 1)} :
           n \in 0..MaxRows}

TableFile(cols, rows) == [readable |-> TRUE, columns |-> cols, rows |-> rows]

WithoutColumn(row, col) == [c \in DOMAIN row \ {col} |-> row[c]]

\* the same row under the alias column names of an older export
AliasRow(row) ==
  [c \in {"date", "time_slot", "anchor", "spend", "gmv", "refund_orders", "ad_roi"} |->
     row[column_mapping(c)]]

Histories ==
  {TableFile(FileColumns, [i \in 1..Len(s) |-> RowList[s[i]]]) : s \in RowChoices}
    \cup {[readable |-> FALSE, columns |-> {}, rows |-> <<>>],
          TableFile(FileColumns \ {"anchor"}, <<WithoutColumn(RowList[1], "anchor")>>),
          TableFile(FileColumns \ {"spend"}, <<WithoutColumn(RowList[1], "spend")>>),
          TableFile(DOMAIN AliasRow(RowList[1]), <<AliasRow(RowList[1])>>)}

\* initialize_system tabulated over the files
InitializeResult == [df \in Histories |-> initialize_outcome(df)]

(***************************************************************************)
(* The state file (pickle)                                                 *)
(***************************************************************************)
NoFile == [kind |-> "absent"]

CorruptFile == [kind |-> "corrupt"]

\* _save_state
Snapshot(init, pool, baseline, progress) ==
  [kind |-> "state", is_initialized |-> init, data_pool |-> pool,
   baseline_table |-> baseline, standard_progress_table |-> progress]

\* a loader that takes the presence of a file for an initialized engine
load_state_trusting(file) ==
  IF file.kind = "state"
  THEN [is_initialized |-> file.is_initialized, data_pool |-> file.data_pool,
        baseline_table |-> file.baseline_table,
        standard_progress_table |-> file.standard_progress_table, logs |-> 0]
  ELSE [is_initialized |-> file.kind = "corrupt", data_pool |-> <<>>,
        baseline_table |-> <<>>, standard_progress_table |-> <<>>,
        logs |-> IF file.kind = "corrupt" THEN 1 ELSE 0]

\* __init__ followed by _load_state: the fields and the error-log entries
load_state(file) ==
  IF file.kind = "state"
  THEN [is_initialized |-> file.is_initialized, data_pool |-> file.data_pool,
        baseline_table |-> file.baseline_table,
        standard_progress_table |-> file.standard_progress_table, logs |-> 0]
  ELSE [is_initialized |-> FALSE, data_pool |-> <<>>, baseline_table |-> <<>>,
        standard_progress_table |-> <<>>,
        logs |-> IF file.kind = "corrupt" THEN 1 ELSE 0]

(***************************************************************************)
(* Inputs: the query mappings real_time_diagnosis is called on             *)
(***************************************************************************)
Metric(name, value) == [name |-> name, value |-> value]

Query(weekday, hour, date, metrics) ==
  [weekday |-> weekday, hour |-> hour, date |-> date, metrics |-> metrics]

Chars12 == <<"1", "2">>

\* target buckets: recorded ones, one with a same-hour neighbour only, one
\* with a same-weekday neighbour only
QueryBuckets == {<<0, 9>>, <<0, 10>>, <<2, 9>>, <<2, 10>>, <<0, 12>>, <<1, 11>>}

QueryValues == {0, 8, 9, 11, 12, 15}

QueryNames ==
  {"spend", "items", "refund_orders", "roi_actual", "ad_roi", "new_fans", "unknown"}

RawValues ==
  {NaN, Text(<<>>), Text(<<"a", "b", "c">>), Text(Chars12),
   Text(Chars12 \o <<"%">>), Num(12)}

\* well-formed single-metric queries
GradedQueries ==
  {Query(Num(b[1]), Num(b[2]), Absent, <<Metric(n, Num(v))>>) :
     b \in QueryBuckets, n \in {"items", "roi_actual"}, v \in QueryValues}

\* every kind of raw value for a metric of each class, and every kind of
\* metric name, at one bucket
RawQueries ==
  {Query(Num(0), Num(9), Absent, <<Metric(n, v)>>) :
     n \in {"items", "roi_actual", "unknown"}, v \in RawValues}
    \cup {Query(Num(0), Num(9), Absent, <<Metric(n, v)>>) :
            n \in QueryNames, v \in {Num(12), Text(Chars12)}}

MetricLists ==
  {<<Metric("items", Num(12))>>,
   <<Metric("items", Num(12)), Metric("roi_actual", Num(12))>>}

\* weekday, hour and date fields as callers send them, malformed ones included
FieldQueries ==
  {Query(f[1], f[2], f[3], m) :
     f \in {<<Text(<<"2">>), Num(9), Absent>>,
            <<NaN, Num(9), Absent>>,
            <<Num(0), Text(HourRange2(9)), Absent>>,
            <<Num(0), Text(HourRange(9)), Absent>>,
            <<Num(0), Text(<<"9">>), Absent>>,
            <<Num(0), NaN, Absent>>,
            <<Absent, Absent, Absent>>,
            <<Absent, Text(HourRange2(9)), Text(DateText(2024, 1, 1))>>,
            <<Absent, Text(HourRange(9)), Text(DateText(2024, 1, 1))>>,
            <<Num(3), Text(HourRange2(9)), Text(DateText(2024, 1, 2))>>,
            <<Absent, Text(HourRange2(9)), Text(DateText(2024, 13, 1))>>},
     m \in MetricLists}

\* several metrics in one query
MixedQueries ==
  {Query(Num(0), Num(9), Absent, m) :
     m \in {<<>>,
            <<Metric("unknown", Num(12)), Metric("items", Num(12))>>,
            <<Metric("roi_actual", Text(<<"a", "b", "c">>)), Metric("items", Num(12))>>,
            <<Metric("items", NaN), Metric("roi_actual", Num(12)),
              Metric("new_fans", Num(12))>>,
            <<Metric("spend", Num(0)), Metric("ad_roi", Num(12))>>,
            <<Metric("items", Num(12)), Metric("roi_actual", Num(12)),
              Metric("unknown", Num(12))>>}}

\* an observed value a little under 1.2 times the baseline of its bucket
BoundaryQueries == {Query(Num(1), Num(10), Absent, <<Metric("spend", Num(359))>>)}

Queries ==
  GradedQueries \cup RawQueries \cup FieldQueries \cup MixedQueries
    \cup BoundaryQueries

(***************************************************************************)
(* Actions                                                                 *)
(***************************************************************************)
\* RealDataDynamicBaseline(data_dir) on a directory holding state_file
Construct ==
  LET l == load_state(state_file)
  IN  /\ is_initialized' = l.is_initialized
      /\ data_pool' = l.data_pool
      /\ baseline_table' = l.baseline_table
      /\ standard_progress_table' = l.standard_progress_table
      /\ last' = [op |-> "construct", logs |-> l.logs]
      /\ UNCHANGED <<state_file, rebuild>>

\* no initialize_system call is in flight
Idle == [pc |-> "idle"]

Init ==
  /\ state_file \in {NoFile, CorruptFile}
  /\ rebuild = Idle
  /\ is_initialized = load_state(state_file).is_initialized
  /\ data_pool = load_state(state_file).data_pool
  /\ baseline_table = load_state(state_file).baseline_table
  /\ standard_progress_table = load_state(state_file).standard_progress_table
  /\ last = [op |-> "construct", logs |-> load_state(state_file).logs]

\* an initialize_system that empties the data pool before it looks at the
\* cleaned rows
Initialize_pool_reset_first(df, writable) ==
  LET r == InitializeResult[df]
  IN  /\ last' = [op |-> "initialize", file |-> df, ret |-> r.ok, logs |-> r.logs,
                  was |-> is_initialized]
      /\ data_pool' = IF r.ok THEN r.pool ELSE <<>>
      /\ baseline_table' = IF r.ok THEN r.baseline ELSE baseline_table
      /\ standard_progress_table' = IF r.ok THEN r.progress ELSE standard_progress_table
      /\ is_initialized' = (r.ok \/ is_initialized)
      /\ state_file' = IF r.ok /\ writable
                       THEN Snapshot(TRUE, r.pool, r.baseline, r.progress)
                       ELSE state_file
      /\ UNCHANGED rebuild

\* an initialize_system that keeps what the engine held: the cleaned rows are
\* appended to the data pool and the new buckets merged into the old tables
Initialize_incremental(df, writable) ==
  LET r == InitializeResult[df]
      merged(old, new) ==
        [k \in DOMAIN old \cup DOMAIN new |-> IF k \in DOMAIN new THEN new[k] ELSE old[k]]
  IN  /\ last' = [op |-> "initialize", file |-> df, ret |-> r.ok, logs |-> r.logs,
                  was |-> is_initialized]
      /\ data_pool' = IF r.ok THEN data_pool \o r.pool ELSE data_pool
      /\ baseline_table' = IF r.ok THEN merged(baseline_table, r.baseline)
                           ELSE baseline_table
      /\ standard_progress_table' =
           IF r.ok THEN merged(standard_progress_table, r.progress)
           ELSE standard_progress_table
      /\ is_initialized' = (r.ok \/ is_initialized)
      /\ state_file' = IF r.ok /\ writable
                       THEN Snapshot(TRUE, data_pool', baseline_table',
                                     standard_progress_table')
                       ELSE state_file
      /\ UNCHANGED rebuild

\* _save_state: the file after the call and the error-log entries; pickle.dump
\* or open() raising leaves the file as it was
save_state(file, writable, init, pool, baseline, progress) ==
  IF writable
  THEN [file |-> Snapshot(init, pool, baseline, progress), logs |-> 0]
  ELSE [file |-> file, logs |-> 1]

\* initialize_system(historical_data_path); writable tells whether the state
\* file can be written when the call reaches _save_state.  last.was records
\* whether the engine was initialized when the call began.
Initialize(df, writable) ==
  LET r == InitializeResult[df]
      s == save_state(state_file, writable, TRUE, r.pool, r.baseline, r.progress)
  IN  /\ IF r.ok
         THEN /\ data_pool' = r.pool
              /\ baseline_table' = r.baseline
              /\ standard_progress_table' = r.progress
              /\ is_initialized' = TRUE
              /\ state_file' = s.file
              /\ last' = [op |-> "initialize", file |-> df, ret |-> TRUE,
                          logs |-> r.logs + s.logs, was |-> is_initialized]
         ELSE /\ last' = [op |-> "initialize", file |-> df, ret |-> FALSE,
                          logs |-> r.logs, was |-> is_initialized]
              /\ UNCHANGED <<is_initialized, data_pool, baseline_table,
                             standard_progress_table, state_file>>
      /\ UNCHANGED rebuild

\* the outcomes of the calls that succeed
Successful(outcomes) == {outcomes[h] : h \in {x \in DOMAIN outcomes : outcomes[x].ok}}

\* the fields real_time_diagnosis reads, in every state initialize_system
\* or a restart can leave them in
EngineViews ==
  {<<FALSE, <<>>, <<>>>>}
    \cup {<<TRUE, r.baseline, r.progress>> : r \in Successful(InitializeResult)}

\* real_time_diagnosis tabulated over those fields and the queries
DiagnosisResult ==
  [e \in EngineViews |-> [query \in Queries |->
     real_time_diagnosis(e[1], e[2], e[3], query)]]

\* a diagnosis that learns online: the weekday and hour of the query are
\* added to the data pool as a new record
Diagnose_learning(query) ==
  LET r == DiagnosisResult[<<is_initialized, baseline_table,
                             standard_progress_table>>][query]
  IN  /\ last' = [op |-> "diagnosis", query |-> query, out |-> r]
      /\ data_pool' = IF r.ran
                      THEN Append(data_pool, [weekday |-> QueryDay(query),
                                              hour |-> QueryHour(query)])
                      ELSE data_pool
      /\ UNCHANGED <<is_initialized, baseline_table, standard_progress_table,
                     state_file, rebuild>>

\* real_time_diagnosis(query)
Diagnose(query) ==
  LET r == DiagnosisResult[<<is_initialized, baseline_table,
                             standard_progress_table>>][query]
  IN  /\ last' = [op |-> "diagnosis", query |-> query, out |-> r]
      /\ UNCHANGED <<engine, state_file, rebuild>>

\* export_baseline_snapshot(): the files go to the export directory
ExportSnapshot ==
  /\ last' = [op |-> "export",
              ret |-> IF ~is_initialized THEN [kind |-> "not_initialized"]
                      ELSE [kind |-> "file",
                            pool_size |-> Len(data_pool),
                            baseline_table |-> baseline_table,
                            standard_progress_table |-> standard_progress_table]]
  /\ UNCHANGED <<engine, state_file, rebuild>>

\* get_system_status()
GetStatus ==
  /\ last' = [op |-> "status",
              ret |-> [initialized |-> is_initialized,
                       pool_size |-> Len(data_pool),
                       baseline_buckets |-> Cardinality(DOMAIN baseline_table),
                       progress_buckets |-> Cardinality(DOMAIN standard_progress_table),
                       indicators |-> Cardinality(all_indicators)]]
  /\ UNCHANGED <<engine, state_file, rebuild>>

Next ==
  \/ Construct
  \/ \E df \in Histories : Initialize(df, TRUE)
  \/ \E query \in Queries : Diagnose(query)
  \/ ExportSnapshot
  \/ GetStatus

\* the engine on a data directory whose state file is always writable
Spec == Init /\ [][Next]_vars

\* the engine on a data directory where writing the state file can fail
\* (disk full, file locked or read-only), queried with the mixed queries
StorageNext ==
  \/ Construct
  \/ \E df \in Histories, writable \in BOOLEAN : Initialize(df, writable)
  \/ \E query \in MixedQueries : Diagnose(query)

StorageSpec == Init /\ [][StorageNext]_vars

(***************************************************************************)
(* initialize_system running in one thread while another thread calls      *)
(* real_time_diagnosis on the same engine.  The engine has no lock: the    *)
(* steps below are the assignments of initialize_system and of the table   *)
(* builders in program order, and a diagnosis can run between any two.     *)
(***************************************************************************)
ConcurrentHistories ==
  {TableFile(FileColumns, <<RowList[4], RowList[5]>>),
   TableFile(FileColumns, <<RowList[1]>>),
   TableFile(FileColumns, <<RowList[11]>>)}

ConcurrentQueries ==
  {Query(Num(1), Num(9), Absent, <<Metric("items", Num(12))>>),
   Query(Num(0), Num(9), Absent, <<Metric("items", Num(12)),
                                   Metric("roi_actual", Num(12))>>)}

\* the file the call in flight has read and preprocessed (lines 168-179)
Building == InitializeResult[rebuild.file]

\* lines 168-184: read, preprocess, return False on an empty frame
BeginRebuild(df) ==
  /\ rebuild = Idle
  /\ IF InitializeResult[df].ok
     THEN /\ rebuild' = [pc |-> "reset_pool", file |-> df,
                         before |-> <<baseline_table, standard_progress_table>>,
                         was |-> is_initialized]
          /\ UNCHANGED last
     ELSE /\ last' = [op |-> "initialize", file |-> df, ret |-> FALSE,
                      logs |-> InitializeResult[df].logs, was |-> is_initialized]
          /\ UNCHANGED rebuild
  /\ UNCHANGED <<engine, state_file>>

\* line 187: self.data_pool = []
ResetPool ==
  /\ rebuild.pc = "reset_pool"
  /\ data_pool' = <<>>
  /\ rebuild' = [rebuild EXCEPT !.pc = "fill_pool"]
  /\ UNCHANGED <<is_initialized, baseline_table, standard_progress_table,
                 state_file, last>>

\* lines 188-189: one pass of the loop that appends the cleaned rows
AppendRow ==
  /\ rebuild.pc = "fill_pool"
  /\ data_pool' = Append(data_pool, Building.pool[Len(data_pool) + 1])
  /\ rebuild' = [rebuild EXCEPT !.pc = IF Len(data_pool') = Len(Building.pool)
                                       THEN "reset_baseline" ELSE "fill_pool"]
  /\ UNCHANGED <<is_initialized, baseline_table, standard_progress_table,
                 state_file, last>>

\* line 277: self.baseline_table = {}
ResetBaseline ==
  /\ rebuild.pc = "reset_baseline"
  /\ baseline_table' = <<>>
  /\ rebuild' = [rebuild EXCEPT !.pc = IF DOMAIN Building.baseline = {}
                                       THEN "reset_progress" ELSE "fill_baseline"]
  /\ UNCHANGED <<is_initialized, data_pool, standard_progress_table,
                 state_file, last>>

\* the buckets the loops of lines 280-281 have still to store
PendingBuckets ==
  {b \in Weekdays \X Hours :
     /\ BucketKey(b[1], b[2]) \in DOMAIN Building.baseline
     /\ BucketKey(b[1], b[2]) \notin DOMAIN baseline_table}

\* the first of them in the order of the loops: by day, then by hour
FirstBucket(pending) ==
  CHOOSE b \in pending :
    \A c \in pending : b[1] < c[1] \/ (b[1] = c[1] /\ b[2] <= c[2])

WithBucket(table, key, values) ==
  [k \in DOMAIN table \cup {key} |-> IF k = key THEN values ELSE table[k]]

StoreKey(key) ==
  /\ baseline_table' = WithBucket(baseline_table, key, Building.baseline[key])
  /\ rebuild' = [rebuild EXCEPT !.pc = IF DOMAIN baseline_table' = DOMAIN Building.baseline
                                       THEN "reset_progress" ELSE "fill_baseline"]

\* line 302: self.baseline_table[key] = baseline_values, for the next bucket
StoreBucket ==
  /\ rebuild.pc = "fill_baseline"
  /\ StoreKey(BucketKey(FirstBucket(PendingBuckets)[1], FirstBucket(PendingBuckets)[2]))
  /\ UNCHANGED <<is_initialized, data_pool, standard_progress_table,
                 state_file, last>>

\* line 317: self.standard_progress_table = {}
ResetProgress ==
  /\ rebuild.pc = "reset_progress"
  /\ standard_progress_table' = <<>>
  /\ rebuild' = [rebuild EXCEPT !.pc = "fill_progress"]
  /\ UNCHANGED <<is_initialized, data_pool, baseline_table, state_file, last>>

\* lines 352-356: the loop that stores the mean progress of every bucket,
\* taken as one step
StoreProgress ==
  /\ rebuild.pc = "fill_progress"
  /\ standard_progress_table' = Building.progress
  /\ rebuild' = [rebuild EXCEPT !.pc = "set_flag"]
  /\ UNCHANGED <<is_initialized, data_pool, baseline_table, state_file, last>>

\* line 195: self.is_initialized = True
SetInitialized ==
  /\ rebuild.pc = "set_flag"
  /\ is_initialized' = TRUE
  /\ rebuild' = [rebuild EXCEPT !.pc = "save"]
  /\ UNCHANGED <<data_pool, baseline_table, standard_progress_table,
                 state_file, last>>

\* lines 196-202: _save_state and return True
FinishRebuild ==
  /\ rebuild.pc = "save"
  /\ state_file' = Snapshot(is_initialized, data_pool, baseline_table,
                            standard_progress_table)
  /\ last' = [op |-> "initialize", file |-> rebuild.file, ret |-> TRUE,
              logs |-> Building.logs, was |-> rebuild.was]
  /\ rebuild' = Idle
  /\ UNCHANGED engine

\* real_time_diagnosis(query) running between two steps of the other thread;
\* last.seen and last.rebuild record the tables it read and where the
\* rebuild stood
ConcurrentDiagnose(query) ==
  /\ last' = [op |-> "diagnosis", query |-> query,
              out |-> real_time_diagnosis(is_initialized, baseline_table,
                                          standard_progress_table, query),
              seen |-> <<baseline_table, standard_progress_table>>,
              rebuild |-> rebuild]
  /\ UNCHANGED <<engine, state_file, rebuild>>

ConcurrentNext ==
  \/ \E df \in ConcurrentHistories : BeginRebuild(df)
  \/ ResetPool
  \/ AppendRow
  \/ ResetBaseline
  \/ StoreBucket
  \/ ResetProgress
  \/ StoreProgress
  \/ SetInitialized
  \/ FinishRebuild
  \/ \E query \in ConcurrentQueries : ConcurrentDiagnose(query)

ConcurrentSpec == Init /\ [][ConcurrentNext]_vars

(***************************************************************************)
(* Properties                                                              *)
(***************************************************************************)
\* the last operation was a diagnosis whose per-metric loop ran
Diagnosed == last.op = "diagnosis" /\ last.out.ran

RecordedAt(m, d, h) == HasEntry(baseline_table, BucketKey(d, h), m)

PositiveAt(m, d, h) == RecordedAt(m, d, h) /\ RPos(baseline_table[BucketKey(d, h)][m])

\* what the evaluator of metric m resolves for the target (d, h)
ResolutionOf(m, d, h) ==
  IF m \in absolute_indicators
  THEN dynamic_resolve(baseline_table, standard_progress_table, m,
                       IntText(d), IntText(h))
  ELSE traditional_resolve(baseline_table, m, BucketKey(d, h))

\* the order of the tiers, Has telling which buckets count as holding a baseline
TierPriority(Has(_, _, _), m, d, h) ==
  LET r == ResolutionOf(m, d, h)
  IN  /\ Has(m, d, h) =>
           r.tier = "exact" /\ r.value = baseline_table[BucketKey(d, h)][m]
      /\ r.tier = "same_hour" => ~Has(m, d, h)
      /\ r.tier = "same_day" => \A d2 \in Weekdays : ~Has(m, d2, h)
      /\ r.tier = "global" =>
           /\ \A d2 \in Weekdays : ~Has(m, d2, h)
           /\ \A h2 \in Hours : ~Has(m, d, h2)
           /\ PositiveKeys(baseline_table, m) # {}

\* the tables were just rebuilt by a successful initialize_system
Rebuilt == last.op = "initialize" /\ last.ret

\* the target of the last query is an integer weekday and hour of the day
IntegerTarget ==
  /\ QueryDay(last.query).t = "num" /\ QueryDay(last.query).v \in Weekdays
  /\ QueryHour(last.query).t = "num" /\ QueryHour(last.query).v \in Hours

\* every graded result of the last diagnosis is labelled with the tier its
\* evaluator resolves for the query's target
LabelsResolution ==
  (Diagnosed /\ IntegerTarget) =>
    \A n \in DOMAIN last.out.locals.results :
      last.out.locals.results[n].kind \in {"dynamic", "traditional"} =>
        last.out.locals.results[n].tier =
          ResolutionOf(column_mapping(n), QueryDay(last.query).v,
                       QueryHour(last.query).v).tier

GradedFrom(kind, tier) ==
  {n \in DOMAIN last.out.locals.results :
     /\ last.out.locals.results[n].kind = kind
     /\ last.out.locals.results[n].tier = tier}

Items == last.query.metrics

Results == last.out.locals.results

TargetDay == Fmt(QueryDay(last.query))

TargetHour == Fmt(QueryHour(last.query))

\* a query metric with a numeric value
Numeric(item) == IsFloatText(item.value)

\* no bucket records a positive baseline of the metric: its baseline is zero
\* or absent in every tier
NoPositiveBaseline(m) == PositiveKeys(baseline_table, m) = {}

\* reported with the degraded grade: no coefficient computed from a baseline
Insufficient(n) ==
  /\ n \in DOMAIN Results
  /\ Results[n].kind = "basic"
  /\ Results[n].grade = "insufficient_data"
  /\ Results[n].coefficient = RInt(1)

\* the baseline named by the label of a graded result
BaselineUsed(res, m) ==
  CASE res.tier = "exact" -> baseline_table[MakeKey(TargetDay, TargetHour)][m]
    [] res.tier = "same_hour" ->
         baseline_table[MakeKey(IntText(res.arg - 1), TargetHour)][m]
    [] res.tier = "same_day" ->
         baseline_table[MakeKey(TargetDay, IntText(res.arg))][m]
    [] res.tier = "global" -> GlobalMean(baseline_table, m)
    [] res.tier = "default" -> RInt(1)

\* the grade is the band of c, each band closed at its lower end
InBand(grade, c, excellent, good, normal) ==
  /\ grade \in {"excellent", "good", "normal", "needs_improvement"}
  /\ grade = "excellent" <=> RLeq(excellent, c)
  /\ grade = "good" <=> RLeq(good, c) /\ RLess(c, excellent)
  /\ grade = "normal" <=> RLeq(normal, c) /\ RLess(c, good)
  /\ grade = "needs_improvement" <=> RLess(c, normal)

\* a result is graded from a baseline only if some positive baseline exists
\* or the default baseline was substituted
NoZeroDivision ==
  \A n \in DOMAIN Results :
    Results[n].kind \in {"dynamic", "traditional"} =>
      /\ Results[n].tier = "default" \/ ~NoPositiveBaseline(column_mapping(n))
      /\ RPos(BaselineUsed(Results[n], column_mapping(n)))

C3_AdditiveGrading ==
  Diagnosed =>
    \A i \in DOMAIN Items :
      LET n == Items[i].name
          m == column_mapping(n)
          v == RInt(FloatOf(Items[i].value))
      IN  (m \in absolute_indicators /\ Numeric(Items[i])) =>
            /\ (IntegerTarget /\ Usable(ResolutionOf(m, QueryDay(last.query).v,
                                                     QueryHour(last.query).v)))
                 => /\ n \in DOMAIN Results
                    /\ Results[n].kind = "dynamic"
                    /\ BaselineUsed(Results[n], m) =
                         ResolutionOf(m, QueryDay(last.query).v,
                                      QueryHour(last.query).v).value
            /\ (n \in DOMAIN Results /\ Results[n].kind = "dynamic")
                 => /\ RPos(BaselineUsed(Results[n], m))
                    /\ Results[n].coefficient =
                         Round2(RDiv(v, BaselineUsed(Results[n], m)))
                    /\ InBand(Results[n].grade, RDiv(v, BaselineUsed(Results[n], m)),
                              Rat(15, 10), Rat(12, 10), Rat(8, 10))

\* an additive metric observed at exactly 1.5 times its baseline was graded
\* excellent
C3_Witness ==
  /\ Diagnosed
  /\ \E i \in DOMAIN Items :
       /\ column_mapping(Items[i].name) \in absolute_indicators
       /\ Items[i].name \in DOMAIN Results
       /\ Results[Items[i].name].kind = "dynamic"
       /\ RDiv(RInt(FloatOf(Items[i].value)),
               BaselineUsed(Results[Items[i].name], column_mapping(Items[i].name)))
            = Rat(15, 10)
       /\ Results[Items[i].name].grade = "excellent"

\* C4: a ratio metric with observed value v and resolved positive baseline b
\* is graded on v/b: excellent iff v/b >= 1.2, good iff 1.1 <= v/b < 1.2,
\* normal iff 0.9 <= v/b < 1.1, needs improvement iff v/b < 0.9; a ratio
\* metric is never graded by the additive evaluator nor an additive metric by
\* the ratio evaluator.
C4_RatioGrading ==
  Diagnosed =>
    \A i \in DOMAIN Items :
      LET n == Items[i].name
          m == column_mapping(n)
          v == RInt(FloatOf(Items[i].value))
      IN  (Numeric(Items[i]) /\ n \in DOMAIN Results) =>
            /\ m \in ratio_indicators => Results[n].kind # "dynamic"
            /\ m \in absolute_indicators => Results[n].kind # "traditional"
            /\ (m \in ratio_indicators /\ Results[n].kind = "traditional")
                 => /\ RPos(BaselineUsed(Results[n], m))
                    /\ Results[n].coefficient =
                         Round2(RDiv(v, BaselineUsed(Results[n], m)))
                    /\ InBand(Results[n].grade, RDiv(v, BaselineUsed(Results[n], m)),
                              Rat(12, 10), Rat(11, 10), Rat(9, 10))

\* a ratio metric observed at exactly 1.2 times a recorded baseline was graded
\* excellent, where the additive bands would say good
C4_Witness ==
  /\ Diagnosed
  /\ \E i \in DOMAIN Items :
       /\ column_mapping(Items[i].name) \in ratio_indicators
       /\ Items[i].name \in DOMAIN Results
       /\ Results[Items[i].name].kind = "traditional"
       /\ Results[Items[i].name].tier = "exact"
       /\ RDiv(RInt(FloatOf(Items[i].value)),
               BaselineUsed(Results[Items[i].name], column_mapping(Items[i].name)))
            = Rat(12, 10)
       /\ Results[Items[i].name].grade = "excellent"

\* the names on a list of the loop
NamesIn(list) == {list[j] : j \in DOMAIN list}

SkippedNames ==
  {last.out.locals.skipped_indicators[j].name :
     j \in DOMAIN last.out.locals.skipped_indicators}

Evaluated(n) ==
  /\ n \in DOMAIN Results
  /\ n \in NamesIn(last.out.locals.dynamic_indicators)
            \cup NamesIn(last.out.locals.traditional_indicators)

Skipped(n) ==
  /\ n \notin DOMAIN Results
  /\ n \notin NamesIn(last.out.locals.dynamic_indicators)
               \cup NamesIn(last.out.locals.traditional_indicators)
  /\ n \in SkippedNames

\* C5 as stated: on an initialized engine every query, malformed weekday,
\* hour or values included, gets the structured diagnosis result, never the
\* whole-query error result, and every metric is either evaluated or listed
\* as skipped.
C5_StructuredResultAlways ==
  (last.op = "diagnosis" /\ is_initialized) =>
    /\ last.out.ret.kind = "diagnosis"
    /\ \A i \in DOMAIN Items :
         \/ Items[i].name \in DOMAIN last.out.ret.results
         \/ \E j \in DOMAIN last.out.ret.classification.skipped :
              last.out.ret.classification.skipped[j].name = Items[i].name

C7_UnclassifiedSkipped ==
  Diagnosed =>
    /\ last.out.locals.total_evaluated = Cardinality(DOMAIN Results)
    /\ \A i \in DOMAIN Items :
         column_mapping(Items[i].name) \notin all_indicators =>
           /\ Skipped(Items[i].name)
           /\ Numeric(Items[i]) =>
                \E j \in DOMAIN last.out.locals.skipped_indicators :
                  last.out.locals.skipped_indicators[j] =
                    [name |-> Items[i].name, reason |-> "unclassified"]

\* an alias that maps outside both lists was skipped as unclassified while
\* another metric of the same query was evaluated
C7_Witness ==
  /\ Diagnosed
  /\ \E i \in DOMAIN Items :
       /\ column_mapping(Items[i].name) # Items[i].name
       /\ column_mapping(Items[i].name) \notin all_indicators
       /\ Numeric(Items[i])
       /\ Skipped(Items[i].name)
  /\ last.out.locals.total_evaluated = 1

\* the values of metric m in the pool records of bucket (w, h)
RecordedValues(m, w, h) ==
  MapSeq(SelectSeq(data_pool,
                   LAMBDA r : /\ r["weekday"].v = w /\ r["hour"].v = h
                              /\ m \in DOMAIN r /\ ~IsNull(r[m])),
         LAMBDA r : RInt(r[m].v))

\* C8: after a successful initialize_system every stored baseline is the mean
\* of the metric over exactly the pool records of its bucket with a non-null
\* value, and a bucket and metric without such a record has no entry.
C8_BaselineMeans ==
  Rebuilt =>
    /\ DOMAIN baseline_table \subseteq
         {BucketKey(w, h) : w \in Weekdays, h \in Hours}
    /\ \A w \in Weekdays, h \in Hours, m \in all_indicators :
         IF RecordedValues(m, w, h) = <<>>
         THEN ~RecordedAt(m, w, h)
         ELSE /\ RecordedAt(m, w, h)
              /\ baseline_table[BucketKey(w, h)][m] =
                   RDiv(RSumSeq(RecordedValues(m, w, h)),
                        RInt(Len(RecordedValues(m, w, h))))
    /\ \A k \in DOMAIN baseline_table : DOMAIN baseline_table[k] \subseteq all_indicators

\* a bucket with two records of different values was averaged, and the
\* buckets without a record have no entry
C8_Witness ==
  /\ Rebuilt
  /\ \E w \in Weekdays, h \in Hours :
       /\ Len(RecordedValues("items", w, h)) = 2
       /\ RecordedValues("items", w, h)[1] # RecordedValues("items", w, h)[2]
       /\ RecordedAt("items", w, h)
  /\ \E w \in Weekdays, h \in Hours : ~RecordedAt("items", w, h)

MustFail(df) ==
  \/ ~df.readable
  \/ ~(required_fields \subseteq {column_mapping(c) : c \in df.columns})
  \/ df.rows = <<>>

\* C10: a failed initialize_system returns False and leaves is_initialized,
\* the data pool, both tables and the persisted snapshot as they were.
C10_FailedInitializeChangesNothing ==
  [][last'.op = "initialize" =>
       /\ MustFail(last'.file) => ~last'.ret
       /\ ~last'.ret => UNCHANGED <<engine, state_file>>]_vars

\* initialize_system failed on an engine that a previous call had initialized
C10_Witness ==
  /\ last.op = "initialize" /\ ~last.ret
  /\ is_initialized /\ data_pool # <<>>
  /\ state_file.kind = "state" /\ state_file.data_pool = data_pool

\* the data pool and the two tables
tables == <<data_pool, baseline_table, standard_progress_table>>

\* what a successful initialize_system on the file leaves in the engine
BuiltFrom(df) ==
  <<InitializeResult[df].pool, InitializeResult[df].baseline,
    InitializeResult[df].progress>>

\* C11: after a successful initialize_system on history H the data pool and
\* both tables are a function of H alone, whatever the engine held before
\* the call; a second call on the same H leaves them value-identical.
C11_RebuildDependsOnHistoryOnly ==
  [][last'.op = "initialize" /\ last'.ret =>
       /\ tables' = BuiltFrom(last'.file)
       /\ (Rebuilt /\ last.file = last'.file => tables' = tables)]_vars

\* initialize_system succeeded on an engine that was already initialized
C11_Witness ==
  /\ Rebuilt /\ last.was
  /\ data_pool # <<>> /\ DOMAIN baseline_table # {}
  /\ tables = BuiltFrom(last.file)

\* the fields of a new engine constructed on the data directory as it is now
Reloaded ==
  <<load_state(state_file).is_initialized, load_state(state_file).data_pool,
    load_state(state_file).baseline_table,
    load_state(state_file).standard_progress_table>>

\* what real_time_diagnosis answers on an engine holding the fields e
AnswerOn(e, query) == DiagnosisResult[<<e[1], e[3], e[4]>>][query]

\* C12: after an initialize_system call that returned True, a new engine
\* constructed on the same data directory has the same initialized flag,
\* data pool and tables, and answers every query as the first engine does.
C12_SnapshotRoundTrip ==
  Rebuilt =>
    /\ Reloaded = engine
    /\ \A query \in MixedQueries :
         AnswerOn(Reloaded, query).ret = AnswerOn(engine, query).ret

\* the engine holds nothing: the state __init__ sets at lines 81-85
Blank ==
  ~is_initialized /\ data_pool = <<>> /\ baseline_table = <<>>
    /\ standard_progress_table = <<>>

\* C13: constructing the engine on a missing or corrupt state file completes
\* and leaves it uninitialized with an empty data pool and empty tables;
\* while it is uninitialized every real_time_diagnosis returns the
\* "not initialized" error without evaluating a metric, and only an
\* initialize_system call that returns True makes it initialized.
C13_MissingSnapshotNotFatal ==
  /\ [](/\ (last.op = "construct" /\ state_file.kind # "state") => Blank
        /\ (last.op = "diagnosis" /\ ~is_initialized) =>
             (last.out.ret.kind = "not_initialized" /\ ~last.out.ran))
  /\ [][(~is_initialized /\ is_initialized') =>
          (last'.op = "initialize" /\ last'.ret)]_vars

\* a diagnosis on an engine constructed on a corrupt state file
C13_Witness ==
  /\ state_file = CorruptFile /\ Blank
  /\ last.op = "diagnosis" /\ last.query.metrics # <<>>
  /\ last.out.ret.kind = "not_initialized"

\* C14: real_time_diagnosis (whatever the query and its outcome),
\* export_baseline_snapshot and get_system_status leave is_initialized, the
\* data pool and both tables unchanged; only initialize_system and the load
\* at construction change them.
C14_QueriesAreReadOnly ==
  [][/\ last'.op \in {"diagnosis", "export", "status"} => UNCHANGED engine
     /\ engine' # engine => last'.op \in {"initialize", "construct"}]_vars

\* a diagnosis that graded a metric, or failed as a whole, on an engine
\* holding tables
C14_Witness ==
  /\ is_initialized /\ DOMAIN baseline_table # {}
  /\ last.op = "diagnosis" /\ last.out.ran
  /\ last.out.ret.kind = "error" \/ DOMAIN last.out.locals.results # {}

\* the pair of tables a completed initialize_system on the file installs
CompletedTables(df) == <<InitializeResult[df].baseline, InitializeResult[df].progress>>

\* C15: a real_time_diagnosis that runs while initialize_system is rebuilding
\* the engine is answered either from the pair of tables the engine held
\* before the rebuild or from the pair the completed rebuild installs, never
\* from an emptied or partly filled table or from a mixed pair.
C15_NoPartialRebuildObserved ==
  (/\ last.op = "diagnosis" /\ "seen" \in DOMAIN last
   /\ last.out.ran /\ last.rebuild.pc # "idle")
    => last.seen \in {last.rebuild.before, CompletedTables(last.rebuild.file)}

\* the pool record is at the last hour recorded for its date
ClosesDay(r) ==
  \A i \in 1..Len(data_pool) :
    data_pool[i]["date"].v = r["date"].v => data_pool[i]["hour"].v <= r["hour"].v

\* the pool records of the bucket whose day has a positive total of the metric
Contributing(key, m) ==
  {i \in 1..Len(data_pool) :
     /\ RowKey(data_pool[i]) = key
     /\ DailyTotal(data_pool, data_pool[i]["date"].v, m) > 0}

\* C16: for every additive metric and every day with a positive total, the
\* cumulative fraction at the day's last recorded hour is 1; a progress entry
\* of a bucket that is the last recorded hour of every contributing day is 1.
C16_ProgressCompleteAtDayEnd ==
  Rebuilt =>
    /\ \A i \in 1..Len(data_pool), m \in absolute_indicators :
         (i \in Contributing(RowKey(data_pool[i]), m) /\ ClosesDay(data_pool[i])) =>
            Cumulative(data_pool, data_pool[i]["date"].v, data_pool[i]["hour"].v, m)
              = DailyTotal(data_pool, data_pool[i]["date"].v, m)
    /\ \A key \in DOMAIN standard_progress_table :
         \A m \in DOMAIN standard_progress_table[key] :
           (\A i \in Contributing(key, m) : ClosesDay(data_pool[i])) =>
              standard_progress_table[key][m] = RInt(1)

\* a day recorded at two hours: the entry of the later hour is 1, the entry
\* of the earlier hour is a proper fraction
C16_Witness ==
  /\ Rebuilt
  /\ \E i, j \in 1..Len(data_pool) :
       /\ data_pool[i]["date"].v = data_pool[j]["date"].v
       /\ data_pool[i]["hour"].v < data_pool[j]["hour"].v
       /\ ClosesDay(data_pool[j])
       /\ HasEntry(standard_progress_table, RowKey(data_pool[j]), "spend")
       /\ standard_progress_table[RowKey(data_pool[j])]["spend"] = RInt(1)
       /\ HasEntry(standard_progress_table, RowKey(data_pool[i]), "spend")
       /\ RLess(standard_progress_table[RowKey(data_pool[i])]["spend"], RInt(1))
       /\ RPos(standard_progress_table[RowKey(data_pool[i])]["spend"])

\* C17: after a successful initialize_system every value stored in the
\* standard progress table lies in [0, 1], and an entry exists only when
\* some contributing day has a positive daily total of the metric.
C17_ProgressInUnitRange ==
  Rebuilt =>
    \A key \in DOMAIN standard_progress_table :
      \A m \in DOMAIN standard_progress_table[key] :
        /\ RLeq(RInt(0), standard_progress_table[key][m])
        /\ RLeq(standard_progress_table[key][m], RInt(1))
        /\ Contributing(key, m) # {}

\* what a diagnosis reported for the metric at position i of its query: the
\* evaluator's result (tier, baseline, coefficient, grade), or None when the
\* metric was skipped
Reported(l, i) ==
  IF l.query.metrics[i].name \in DOMAIN l.out.locals.results
  THEN l.out.locals.results[l.query.metrics[i].name]
  ELSE None

\* the two diagnoses evaluate the same metric with the same observed value
\* at the same weekday and hour
SameEvaluation(l1, i, l2, j) ==
  /\ column_mapping(l1.query.metrics[i].name) = column_mapping(l2.query.metrics[j].name)
  /\ IsFloatText(l1.query.metrics[i].value) /\ IsFloatText(l2.query.metrics[j].value)
  /\ FloatOf(l1.query.metrics[i].value) = FloatOf(l2.query.metrics[j].value)
  /\ Fmt(QueryDay(l1.query)) = Fmt(QueryDay(l2.query))
  /\ Fmt(QueryHour(l1.query)) = Fmt(QueryHour(l2.query))

C19_FailuresAreLogged ==
  /\ (last.op = "initialize" /\ ~last.ret) => last.logs >= 1
  /\ (last.op = "construct" /\ state_file = CorruptFile) => last.logs >= 1
  /\ (Diagnosed /\ \E i \in 1..Len(last.out.locals.skipped_indicators) :
                     last.out.locals.skipped_indicators[i].reason = "bad_format")
       => last.out.logs >= 1

\* C20: every record of the data pool has a date, an hour and an operator
\* identifier, none of them null; and initialize_system fails on a file
\* that lacks one of the three columns.
C20_StructuralFieldsPresent ==
  /\ \A i \in 1..Len(data_pool) :
       \A f \in required_fields :
         f \in DOMAIN data_pool[i] /\ ~IsNull(data_pool[i][f])
  /\ (/\ last.op = "initialize"
      /\ ~(required_fields \subseteq {column_mapping(c) : c \in last.file.columns}))
       => ~last.ret

\* the number a numeric string denotes, a trailing percent sign or a leading
\* currency sign being decoration
Decoration == {"%", "$"}

Undecorated(s) == SelectSeq(s, LAMBDA ch : ch \notin Decoration)

NumericString(c) ==
  /\ c.t = "text"
  /\ Undecorated(c.s) # <<>>
  /\ AllDigits(Undecorated(c.s))

\* the outcome of the loop for the metric at position i of the last query
\* had its value been v
OutcomeWith(i, v) ==
  MetricOutcome(baseline_table, standard_progress_table, QueryDay(last.query),
                QueryHour(last.query), Metric(Items[i].name, v))

\* what the last diagnosis did with the metric at position i, in the terms
\* of an outcome of the loop
Placed(i, out) ==
  IF out.cls = "skipped"
  THEN /\ Skipped(Items[i].name)
       /\ \E j \in DOMAIN last.out.locals.skipped_indicators :
            last.out.locals.skipped_indicators[j] =
              [name |-> Items[i].name, reason |-> out.reason]
  ELSE /\ Evaluated(Items[i].name)
       /\ Results[Items[i].name] = out.result

\* C21 as stated: a query metric whose value is a numeric string, a percent
\* or currency sign included, is evaluated as the plain number would be and
\* is not skipped as badly formatted.
C21_DecoratedValueEvaluated ==
  Diagnosed =>
    \A i \in DOMAIN Items :
      NumericString(Items[i].value) =>
        /\ Placed(i, OutcomeWith(i, Num(ToNumber(Undecorated(Items[i].value.s)))))
        /\ [name |-> Items[i].name, reason |-> "bad_format"]
             \notin NamesIn(last.out.locals.skipped_indicators)

\* the baseline and the coefficient a graded result reports are those of
\* baseline b for the observed value
ReportsBaseline(res, value, b) ==
  /\ res.details.baseline =
       Found(IF res.kind = "dynamic" THEN RoundHalfEven(b, 1) ELSE Round2(b))
  /\ res.coefficient = Round2(RDiv(RInt(value), b))

\* the result of the metric at position i, when it was graded from the
\* same-hour or the same-weekday tier, comes from the bucket its label
\* names, and no bucket of a lower index qualifies
TieBreak(Has(_, _, _), i) ==
  LET res == Results[Items[i].name]
      m   == column_mapping(Items[i].name)
      d0  == QueryDay(last.query).v
      h0  == QueryHour(last.query).v
  IN  /\ res.tier = "same_hour" =>
           /\ Has(m, res.arg - 1, h0)
           /\ \A d \in Weekdays : Has(m, d, h0) => res.arg - 1 <= d
           /\ ReportsBaseline(res, FloatOf(Items[i].value),
                              baseline_table[BucketKey(res.arg - 1, h0)][m])
      /\ res.tier = "same_day" =>
           /\ Has(m, d0, res.arg)
           /\ \A h \in Hours : Has(m, d0, h) => res.arg <= h
           /\ ReportsBaseline(res, FloatOf(Items[i].value),
                              baseline_table[BucketKey(d0, res.arg)][m])

ValidRecord(row) ==
  /\ \A k \in key_financial_metrics :
       k \in DOMAIN row /\ row[k].t = "num" /\ row[k].v # 0
  /\ row["date"].t = "num"
  /\ row["hour"].t = "num" /\ row["hour"].v \in Int
  /\ row["weekday"].t = "num"
  /\ row["weekday"].v \in Weekdays
  /\ row["weekday"].v = (row["date"].v + 3) % 7

\* C23: after every successful initialize_system every record of the data
\* pool has a non-null, non-zero value for both key financial metrics, a
\* parsed date and integer hour, and the Monday-based weekday of its date.
C23_DataPoolValid ==
  Rebuilt => \A i \in DOMAIN data_pool : ValidRecord(data_pool[i])

\* initialize_system succeeded on a file one of whose rows has a zero key
\* financial metric: the pool holds the other row only
C23_Witness ==
  /\ Rebuilt
  /\ data_pool # <<>>
  /\ Len(data_pool) < Len(last.file.rows)
  /\ \E i \in DOMAIN last.file.rows :
       /\ "spend" \in DOMAIN last.file.rows[i]
       /\ last.file.rows[i]["spend"] = Num(0)

\* the weekday and hour _preprocess_data gives a historical row carrying
\* the date and the hour text
RowBucket(date, hour) ==
  LET row == CoerceRow([date |-> date, hour |-> hour])
  IN  [valid |-> HasValidTime(row),
       weekday |-> IF HasValidTime(row) THEN WithWeekday(row)["weekday"] ELSE NaN,
       hour |-> row["hour"]]

\* the last query gives its bucket as a date string and an hour text that
\* the preprocessor accepts in a historical row
DerivedTarget ==
  /\ last.query.date.t = "text"
  /\ last.query.hour.t = "text"
  /\ RowBucket(last.query.date, last.query.hour).valid

\* C24 as stated: a query giving a date string and an hour-range string is
\* diagnosed at the bucket (Monday-based weekday of the date, starting hour
\* of the range), the bucket the preprocessor assigns to a historical row
\* with the same date and the same hour text.
C24_QueryBucketAsPreprocessor ==
  (Diagnosed /\ DerivedTarget) =>
    /\ QueryDay(last.query) = RowBucket(last.query.date, last.query.hour).weekday
    /\ QueryHour(last.query) = RowBucket(last.query.date, last.query.hour).hour
    /\ MakeKey(TargetDay, TargetHour) =
         BucketKey(RowBucket(last.query.date, last.query.hour).weekday.v,
                   RowBucket(last.query.date, last.query.hour).hour.v)

\* C25: whatever initialize_system calls were made, no bucket of the
\* standard progress table has a ratio metric, or any name outside the
\* additive list, as a key.
C25_ProgressHoldsAdditiveOnly ==
  \A k \in DOMAIN standard_progress_table :
    /\ DOMAIN standard_progress_table[k] \subseteq absolute_indicators
    /\ DOMAIN standard_progress_table[k] \cap ratio_indicators = {}

\* initialize_system succeeded a second time, on a history whose rows carry
\* a positive ratio metric: the baseline table records that metric in a
\* bucket, the progress table holds the bucket with additive metrics only
C25_Witness ==
  /\ Rebuilt /\ last.was
  /\ \E k \in DOMAIN standard_progress_table :
       /\ DOMAIN standard_progress_table[k] # {}
       /\ k \in DOMAIN baseline_table
       /\ \E m \in ratio_indicators :
            m \in DOMAIN baseline_table[k] /\ RPos(baseline_table[k][m])

\* the last diagnosis returned the structured result
Structured == Diagnosed /\ last.out.ret.kind = "diagnosis"

\* the number of positions of a list that hold the name
Occurrences(list, n) == Cardinality({j \in DOMAIN list : list[j] = n})

SkippedOccurrences(n) ==
  Cardinality({j \in DOMAIN last.out.ret.classification.skipped :
                 last.out.ret.classification.skipped[j].name = n})

\* C26: in every structured diagnosis result each input metric is on exactly
\* one of the dynamic, traditional and skipped lists, the total of inputs is
\* the number evaluated plus the number skipped, and the keys of the results
\* mapping are the metrics on the dynamic and traditional lists.
C26_CountersConsistent ==
  Structured =>
    /\ \A i \in DOMAIN Items :
         Occurrences(last.out.ret.classification.dynamic, Items[i].name)
           + Occurrences(last.out.ret.classification.traditional, Items[i].name)
           + SkippedOccurrences(Items[i].name) = 1
    /\ last.out.ret.stats.total = Len(Items)
    /\ last.out.ret.stats.evaluated =
         Len(last.out.ret.classification.dynamic)
           + Len(last.out.ret.classification.traditional)
    /\ last.out.ret.stats.skipped = Len(last.out.ret.classification.skipped)
    /\ last.out.ret.stats.total =
         last.out.ret.stats.evaluated + last.out.ret.stats.skipped
    /\ DOMAIN last.out.ret.results =
         NamesIn(last.out.ret.classification.dynamic)
           \cup NamesIn(last.out.ret.classification.traditional)

\* a structured result for a query of three metrics, one on each list
C26_Witness ==
  /\ Structured
  /\ Len(Items) >= 3
  /\ last.out.ret.classification.dynamic # <<>>
  /\ last.out.ret.classification.traditional # <<>>
  /\ last.out.ret.classification.skipped # <<>>

\* C27 as stated: whenever some bucket of the baseline table holds a positive
\* baseline of an additive metric, a query giving a numeric value for that
\* metric is graded from a positive baseline resolved by one of the four
\* tiers; it is neither reported as "insufficient data" nor skipped, even
\* when the target bucket or the first bucket a tier finds holds a zero or
\* negative mean.
C27_InsufficientOnlyWithoutPositive ==
  Diagnosed =>
    \A i \in DOMAIN Items :
      (/\ column_mapping(Items[i].name) \in absolute_indicators
       /\ Numeric(Items[i])
       /\ ~NoPositiveBaseline(column_mapping(Items[i].name))) =>
        /\ Evaluated(Items[i].name)
        /\ ~Insufficient(Items[i].name)
        /\ Results[Items[i].name].kind = "dynamic"
        /\ Results[Items[i].name].tier \in {"exact", "same_hour", "same_day", "global"}

\* a resolution that ended in one of the four tiers with a baseline the
\* evaluator grades from
ResolvesInTier(r) ==
  Usable(r) /\ r.tier \in {"exact", "same_hour", "same_day", "global"}

\* the two ladders applied to the same metric and target
LaddersAgree(m, d, h) ==
  LET a == dynamic_resolve(baseline_table, standard_progress_table, m,
                           IntText(d), IntText(h))
      b == traditional_resolve(baseline_table, m, BucketKey(d, h))
  IN  (ResolvesInTier(a) \/ ResolvesInTier(b)) =>
        /\ a.tier = b.tier
        /\ a.arg = b.arg
        /\ a.value = b.value

C29_ReportedCoefficientInBand ==
  Diagnosed =>
    \A n \in DOMAIN Results :
      /\ Results[n].kind = "dynamic" =>
           InBand(Results[n].grade, Results[n].coefficient,
                  Rat(15, 10), Rat(12, 10), Rat(8, 10))
      /\ Results[n].kind = "traditional" =>
           InBand(Results[n].grade, Results[n].coefficient,
                  Rat(12, 10), Rat(11, 10), Rat(9, 10))

\* the keys of the buckets of a week: weekday 0..6 and hour 0..23
WeekKeys == {BucketKey(d, h) : d \in Weekdays, h \in Hours}

\* C30 as stated: after any successful initialize_system every bucket key of
\* the baseline table and of the standard progress table denotes a weekday
\* in 0..6 and an hour in 0..23, and every bucket of the progress table is a
\* bucket of the baseline table.
C30_BucketKeysInRange ==
  Rebuilt =>
    /\ DOMAIN baseline_table \subseteq WeekKeys
    /\ DOMAIN standard_progress_table \subseteq WeekKeys
    /\ DOMAIN standard_progress_table \subseteq DOMAIN baseline_table

====
